---- MODULE Spec2Model ----
(***************************************************************************)
(* Model of the rust-ppapi C helper layer (src/src/libhelper/helper.cpp,   *)
(* src/src/helper.cpp) and of the PNaCl compatibility code of the bundled  *)
(* libressl (getentropy_nacl.c, o_str.c, include/string.h).                *)
(*                                                                         *)
(* The specifications share the variables of this module:                  *)
(*   SpecVar  the PP_Var encoders and decoders                             *)
(*   SpecCb   the completion-callback helpers and the host around them     *)
(*   SpecEnt  getentropy(), one program step per action (SpecEntFair: with *)
(*            the fairness of a running program)                           *)
(*   SpecStr  OPENSSL_strncasecmp / strncasecmp under __pnacl__            *)
(***************************************************************************)
EXTENDS Integers, Sequences, FiniteSets, TLC

VARIABLES
  \* ---- PP_Var layer ----
  vcall,      \* the helper call being made: [fn, arg]
  var,        \* the PP_Var returned by the encoder, or NoVar
  vresult,    \* the value returned by the decoder, or NoResult
  vpc,        \* "input" -> "encoded" -> "decoded"
  \* ---- completion callbacks ----
  cbs,        \* the PP_CompletionCallback values built so far, in order
  given,      \* per callback: the arguments it was built from, <<func, user_data>>
  crossed,    \* per callback: it has been passed into a host call
  calls,      \* log of the calls made to user functions: <<func, user_data, code>>
  hostInv,    \* per callback: invocations made by the host
  adapterRun, \* per callback: run_completion_callback calls made on it
  crashed,    \* the process called through a NULL function pointer
  lastOp,     \* the operation that made the last step
  \* ---- getentropy ----
  epc,        \* program counter inside getentropy
  elen,       \* the len argument
  buf,        \* the caller's buffer: sequence of [val, src]
  ei,         \* the loop index i
  fd,         \* the local fd: -1 or an open descriptor number
  fdState,    \* per descriptor number: "unused" / "open" / "closed"
  closes,     \* per descriptor number: how many times close() was called on it
  errno,      \* the thread's errno
  errno0,     \* errno when getentropy was entered
  save_errno, \* the local save_errno
  devKind,    \* what fstat reports for /dev/urandom: "chr" or "reg"
  faults,     \* what went wrong in this call: "open", "fstat", "notchr", "read"
  spin,       \* parity of the reads of this call that returned 0
  intr,       \* EINTR / EAGAIN results the environment has produced in this call
  eret,       \* the return value, 0 or -1; 1 while the call has not returned
  \* ---- strncasecmp ----
  str1, str2, \* the two strings (without their terminating NUL)
  sn,         \* the n argument
  sres,       \* [fn, ret, maxidx] of the call made, or NoCmp
  spc         \* "input" -> "done"

varVars == <<vcall, var, vresult, vpc>>
cbVars  == <<cbs, given, crossed, calls, hostInv, adapterRun, crashed, lastOp>>
entVars == <<epc, elen, buf, ei, fd, fdState, closes, errno, errno0, save_errno,
             devKind, faults, spin, intr, eret>>
strVars == <<str1, str2, sn, sres, spc>>
vars    == <<varVars, cbVars, entVars, strVars>>

(***************************************************************************)
(* Bounds of the model.                                                    *)
(***************************************************************************)
MaxSmall == 2      \* small payload values 0..MaxSmall, next to the extremes
MaxCbs   == 2      \* completion callbacks built in one run
MaxLog   == 2      \* calls of user functions recorded in one run
MaxLen   == 2      \* the len argument of getentropy
MaxIntr  == 1      \* EINTR / EAGAIN results within one getentropy call
MaxFds   == 2      \* descriptors the process can open in one run
MaxStr   == 2      \* length of the strings compared

NoVar    == [type |-> -1, padding |-> -1, value |-> << >>]
NoResult == "none"

(***************************************************************************)
(* Machine integers.  An int32_t is a TLA+ integer in -2^31 .. 2^31-1.     *)
(* An int64_t is [hi, mid, lo]: value = hi*2^32 + mid*2^16 + lo, hi a      *)
(* signed 32-bit integer, mid and lo 16-bit limbs.  A double is its        *)
(* IEEE-754 fields [sign, exp, fhi, fmid, flo] (1, 11, 20+16+16 bits).     *)
(* The union PP_VarValue is its object representation: 8 bytes, little     *)
(* endian, byte 1 the least significant.                                   *)
(***************************************************************************)
I32Bytes(n) ==
  << n % 256, (n \div 256) % 256, (n \div 65536) % 256, (n \div 16777216) % 256 >>

BytesI32(b) ==
  b[1] + 256 * b[2] + 65536 * b[3]
       + 16777216 * (IF b[4] >= 128 THEN b[4] - 256 ELSE b[4])

I64Bytes(id) ==
  << id.lo % 256, id.lo \div 256, id.mid % 256, id.mid \div 256 >> \o I32Bytes(id.hi)

BytesI64(b) ==
  [ hi  |-> BytesI32(<<b[5], b[6], b[7], b[8]>>),
    mid |-> b[3] + 256 * b[4],
    lo  |-> b[1] + 256 * b[2] ]

F64Bytes(d) ==
  << d.flo % 256, d.flo \div 256, d.fmid % 256, d.fmid \div 256,
     d.fhi % 256, (d.fhi \div 256) % 256,
     (d.exp % 16) * 16 + d.fhi \div 65536,
     d.sign * 128 + d.exp \div 16 >>

BytesF64(b) ==
  [ sign |-> b[8] \div 128,
    exp  |-> (b[8] % 128) * 16 + b[7] \div 16,
    fhi  |-> (b[7] % 16) * 65536 + b[6] * 256 + b[5],
    fmid |-> b[3] + 256 * b[4],
    flo  |-> b[1] + 256 * b[2] ]

(***************************************************************************)
(* ppapi/c/pp_var.h, ppapi/c/pp_bool.h (included by ppapi.hpp).            *)
(***************************************************************************)
PP_VarType ==
  [ PP_VARTYPE_UNDEFINED    |-> 0,
    PP_VARTYPE_NULL         |-> 1,
    PP_VARTYPE_BOOL         |-> 2,
    PP_VARTYPE_INT32        |-> 3,
    PP_VARTYPE_DOUBLE       |-> 4,
    PP_VARTYPE_STRING       |-> 5,
    PP_VARTYPE_OBJECT       |-> 6,
    PP_VARTYPE_ARRAY        |-> 7,
    PP_VARTYPE_DICTIONARY   |-> 8,
    PP_VARTYPE_ARRAY_BUFFER |-> 9 ]

PP_Bool == [ PP_FALSE |-> 0, PP_TRUE |-> 1 ]

\* The bytes of a union that a store to a shorter member leaves unspecified.
Junk == {0, 170}

\* struct PP_Var result = { type, 0, {PP_FALSE} }: as_bool (4 bytes) is zero,
\* the other 4 bytes of the union hold an unspecified value j.
PP_VarInit(type, j) ==
  [ type |-> type, padding |-> 0, value |-> <<0, 0, 0, 0, j, j, j, j>> ]

\* result.value.<member> = ...: the member's bytes are replaced.
StoreLow4(v, b) ==
  [ v EXCEPT !.value = << b[1], b[2], b[3], b[4], @[5], @[6], @[7], @[8] >> ]

PP_MakeUndefined(j) == PP_VarInit(PP_VarType.PP_VARTYPE_UNDEFINED, j)
PP_MakeNull(j)      == PP_VarInit(PP_VarType.PP_VARTYPE_NULL, j)
PP_MakeBool(b, j)   == StoreLow4(PP_VarInit(PP_VarType.PP_VARTYPE_BOOL, j), I32Bytes(b))
PP_MakeInt32(n, j)  == StoreLow4(PP_VarInit(PP_VarType.PP_VARTYPE_INT32, j), I32Bytes(n))
PP_MakeDouble(d, j) ==
  [ PP_VarInit(PP_VarType.PP_VARTYPE_DOUBLE, j) EXCEPT !.value = F64Bytes(d) ]

(***************************************************************************)
(* helper.cpp: the encoders and decoders.                                  *)
(***************************************************************************)
make_undefined_var(j) == PP_MakeUndefined(j)
\* Mutant: the null Variant is built by the undefined constructor.
make_null_var_undefined(j) == PP_MakeUndefined(j)
make_null_var(j)      == PP_MakeNull(j)

\* static_cast<PP_Bool>(value): true -> PP_TRUE, false -> PP_FALSE
bool_to_var(value, j) ==
  PP_MakeBool(IF value THEN PP_Bool.PP_TRUE ELSE PP_Bool.PP_FALSE, j)
\* PP_Bool -> bool: any value but 0 is true
bool_from_var(v) ==
  BytesI32(<<v.value[1], v.value[2], v.value[3], v.value[4]>>) # 0

i32_to_var(value, j) == PP_MakeInt32(value, j)
\* Mutant: the payload is read as a 16-bit integer.
i32_from_var_short(v) == BytesI32(<<v.value[1], v.value[2], 0, 0>>)
i32_from_var(v) == BytesI32(<<v.value[1], v.value[2], v.value[3], v.value[4]>>)

f64_to_var(value, j) == PP_MakeDouble(value, j)
f64_from_var(v) == BytesF64(v.value)

string_id_to_var(id) ==
  [ type |-> PP_VarType.PP_VARTYPE_STRING, padding |-> 0, value |-> I64Bytes(id) ]
object_id_to_var(id) ==
  [ type |-> PP_VarType.PP_VARTYPE_OBJECT, padding |-> 0, value |-> I64Bytes(id) ]
array_id_to_var(id) ==
  [ type |-> PP_VarType.PP_VARTYPE_ARRAY, padding |-> 0, value |-> I64Bytes(id) ]
\* Mutant: the initializer lacks the padding field, and the id lands in it.
dictionary_id_to_var_nopad(id) ==
  [ type |-> PP_VarType.PP_VARTYPE_DICTIONARY, padding |-> id.lo, value |-> I64Bytes(id) ]
dictionary_id_to_var(id) ==
  [ type |-> PP_VarType.PP_VARTYPE_DICTIONARY, padding |-> 0, value |-> I64Bytes(id) ]
array_buffer_id_to_var(id) ==
  [ type |-> PP_VarType.PP_VARTYPE_ARRAY_BUFFER, padding |-> 0, value |-> I64Bytes(id) ]
\* Mutant: the id is read through the 32-bit member as_int.
id_from_var_as_int(v) ==
  [ hi  |-> IF v.value[4] >= 128 THEN -1 ELSE 0,
    mid |-> v.value[3] + 256 * v.value[4],
    lo  |-> v.value[1] + 256 * v.value[2] ]
id_from_var(v) == BytesI64(v.value)

(***************************************************************************)
(* Inputs of the PP_Var layer.                                             *)
(***************************************************************************)
I32Samples ==
  (-MaxSmall .. MaxSmall) \cup {42, 255, 256, -256, 65536, 2147483647, -2147483647 - 1}

I64Samples ==
  [ hi  : {0, 1, -1, 2147483647, -2147483647 - 1},
    mid : {0, 65535},
    lo  : (0 .. MaxSmall) \cup {42, 65535} ]

\* +-0, denormals, normals, infinities and NaNs
F64Samples ==
  [ sign : {0, 1},
    exp  : {0, 1, 1023, 2047},
    fhi  : {0, 524288, 1048575},
    fmid : {0, 65535},
    flo  : 0 .. MaxSmall ]

RefEncoders ==
  { "string_id_to_var", "object_id_to_var", "array_id_to_var",
    "dictionary_id_to_var", "array_buffer_id_to_var" }

VarCalls ==
       [ fn : {"make_undefined_var", "make_null_var"}, arg : {"void"} ]
  \cup [ fn : {"bool_to_var"}, arg : BOOLEAN ]
  \cup [ fn : {"i32_to_var"}, arg : I32Samples ]
  \cup [ fn : {"f64_to_var"}, arg : F64Samples ]
  \cup [ fn : RefEncoders, arg : I64Samples ]

\* The encoder named fn applied to arg (j: the unspecified union bytes).
Encode(fn, arg, j) ==
  CASE fn = "make_undefined_var"     -> make_undefined_var(j)
    [] fn = "make_null_var"          -> make_null_var(j)
    [] fn = "bool_to_var"            -> bool_to_var(arg, j)
    [] fn = "i32_to_var"             -> i32_to_var(arg, j)
    [] fn = "f64_to_var"             -> f64_to_var(arg, j)
    [] fn = "string_id_to_var"       -> string_id_to_var(arg)
    [] fn = "object_id_to_var"       -> object_id_to_var(arg)
    [] fn = "array_id_to_var"        -> array_id_to_var(arg)
    [] fn = "dictionary_id_to_var"   -> dictionary_id_to_var(arg)
    [] fn = "array_buffer_id_to_var" -> array_buffer_id_to_var(arg)

IsRefType(t) ==
  t \in { PP_VarType.PP_VARTYPE_STRING, PP_VarType.PP_VARTYPE_OBJECT,
          PP_VarType.PP_VARTYPE_ARRAY, PP_VarType.PP_VARTYPE_DICTIONARY,
          PP_VarType.PP_VARTYPE_ARRAY_BUFFER }

(***************************************************************************)
(* SpecVar: a caller makes one encoder call, and then applies the decoder  *)
(* that the Kind of the Variant allows.                                    *)
(***************************************************************************)
VarIdle ==
  /\ vcall = [fn |-> "none", arg |-> "void"]
  /\ var = NoVar
  /\ vresult = NoResult
  /\ vpc = "idle"

CallEncoder(fn) ==
  /\ vpc = "input"
  /\ vcall.fn = fn
  /\ \E j \in Junk : var' = Encode(fn, vcall.arg, j)
  /\ vpc' = "encoded"
  /\ UNCHANGED <<vcall, vresult>>
  /\ UNCHANGED <<cbVars, entVars, strVars>>

CallMakeUndefinedVar   == CallEncoder("make_undefined_var")
CallMakeNullVar        == CallEncoder("make_null_var")
CallBoolToVar          == CallEncoder("bool_to_var")
CallI32ToVar           == CallEncoder("i32_to_var")
CallF64ToVar           == CallEncoder("f64_to_var")
CallStringIdToVar      == CallEncoder("string_id_to_var")
CallObjectIdToVar      == CallEncoder("object_id_to_var")
CallArrayIdToVar       == CallEncoder("array_id_to_var")
CallDictionaryIdToVar  == CallEncoder("dictionary_id_to_var")
CallArrayBufferIdToVar == CallEncoder("array_buffer_id_to_var")

CallBoolFromVar ==
  /\ vpc = "encoded"
  /\ var.type = PP_VarType.PP_VARTYPE_BOOL
  /\ vresult' = bool_from_var(var)
  /\ vpc' = "decoded"
  /\ UNCHANGED <<vcall, var>>
  /\ UNCHANGED <<cbVars, entVars, strVars>>

CallI32FromVar ==
  /\ vpc = "encoded"
  /\ var.type = PP_VarType.PP_VARTYPE_INT32
  /\ vresult' = i32_from_var(var)
  /\ vpc' = "decoded"
  /\ UNCHANGED <<vcall, var>>
  /\ UNCHANGED <<cbVars, entVars, strVars>>

CallF64FromVar ==
  /\ vpc = "encoded"
  /\ var.type = PP_VarType.PP_VARTYPE_DOUBLE
  /\ vresult' = f64_from_var(var)
  /\ vpc' = "decoded"
  /\ UNCHANGED <<vcall, var>>
  /\ UNCHANGED <<cbVars, entVars, strVars>>

CallIdFromVar ==
  /\ vpc = "encoded"
  /\ IsRefType(var.type)
  /\ vresult' = id_from_var(var)
  /\ vpc' = "decoded"
  /\ UNCHANGED <<vcall, var>>
  /\ UNCHANGED <<cbVars, entVars, strVars>>

NextVar ==
  \/ CallMakeUndefinedVar \/ CallMakeNullVar
  \/ CallBoolToVar \/ CallI32ToVar \/ CallF64ToVar
  \/ CallStringIdToVar \/ CallObjectIdToVar \/ CallArrayIdToVar
  \/ CallDictionaryIdToVar \/ CallArrayBufferIdToVar
  \/ CallBoolFromVar \/ CallI32FromVar \/ CallF64FromVar \/ CallIdFromVar

(***************************************************************************)
(* ppapi/c/pp_completion_callback.h (included by ppapi.hpp and helper.cpp).*)
(***************************************************************************)
NULL == "NULL"

\* struct PP_CompletionCallback cc = { func, user_data, PP_COMPLETIONCALLBACK_FLAG_NONE }
PP_MakeCompletionCallback(func, user_data) ==
  [ func |-> func, user_data |-> user_data, flags |-> 0 ]

\* PP_MakeCompletionCallback(NULL, NULL)
PP_BlockUntilComplete == PP_MakeCompletionCallback(NULL, NULL)

\* cc->func(cc->user_data, res).  The result is the calls made to user
\* functions, and whether the call went through a NULL function pointer.
PP_RunCompletionCallback(cc, res) ==
  IF cc.func = NULL
    THEN [ made |-> << >>, ub |-> TRUE ]
    ELSE [ made |-> << [func |-> cc.func, user_data |-> cc.user_data, code |-> res] >>,
           ub |-> FALSE ]

(***************************************************************************)
(* helper.cpp: the completion-callback helpers.                            *)
(***************************************************************************)
make_completion_callback(func, user_data) == PP_MakeCompletionCallback(func, user_data)

\* Mutant: the result code is dropped, the function is called with PP_OK.
run_completion_callback_ok(func, code) == PP_RunCompletionCallback(func, 0)
\* Mutant: the helper does not call the function.
run_completion_callback_noop(func, code) == [ made |-> << >>, ub |-> func.func = NULL ]
run_completion_callback(func, code) == PP_RunCompletionCallback(func, code)

block_until_complete == PP_BlockUntilComplete

(***************************************************************************)
(* SpecCb: the language side builds callbacks, may run them through the    *)
(* helper, and may pass them into a host call; the host invokes a callback *)
(* it was given once.                                                      *)
(***************************************************************************)
Funcs    == {"f"}            \* a NULL func comes from block_until_complete
UserData == {NULL, "ctx"}
Codes    == {0, -3}

NoOp == [op |-> "none", k |-> 0, code |-> 0]

CbIdle ==
  /\ cbs = << >>
  /\ given = << >>
  /\ crossed = << >>
  /\ calls = << >>
  /\ hostInv = << >>
  /\ adapterRun = << >>
  /\ crashed = FALSE
  /\ lastOp = NoOp

\* A ghost-tagged log entry: which callback, and who made the call.
Tagged(made, k, by) ==
  [ n \in 1 .. Len(made) |->
      [ cb |-> k, by |-> by, func |-> made[n].func,
        user_data |-> made[n].user_data, code |-> made[n].code ] ]

NewCallback(cb, op, func, user_data) ==
  /\ ~crashed
  /\ Len(cbs) < MaxCbs
  /\ cbs' = Append(cbs, cb)
  /\ given' = Append(given, <<func, user_data>>)
  /\ crossed' = Append(crossed, FALSE)
  /\ hostInv' = Append(hostInv, 0)
  /\ adapterRun' = Append(adapterRun, 0)
  /\ lastOp' = [op |-> op, k |-> Len(cbs) + 1, code |-> 0]
  /\ UNCHANGED <<calls, crashed>>
  /\ UNCHANGED <<varVars, entVars, strVars>>

MakeCompletionCallback ==
  \E func \in Funcs, user_data \in UserData :
    NewCallback(make_completion_callback(func, user_data), "make", func, user_data)

BlockUntilComplete == NewCallback(block_until_complete, "block", NULL, NULL)

\* run_completion_callback(cbs[k], code), called by the language side.  A
\* call through a NULL pointer is undefined: the process traps, or goes on.
RunCompletionCallback ==
  \E k \in 1 .. Len(cbs), code \in Codes :
    LET r == run_completion_callback(cbs[k], code) IN
      /\ ~crashed
      /\ Len(calls) + Len(r.made) <= MaxLog
      /\ adapterRun[k] < MaxLog
      /\ calls' = calls \o Tagged(r.made, k, "adapter")
      /\ adapterRun' = [adapterRun EXCEPT ![k] = @ + 1]
      /\ IF r.ub THEN crashed' \in BOOLEAN ELSE crashed' = crashed
      /\ lastOp' = [op |-> "run", k |-> k, code |-> code]
      /\ UNCHANGED <<cbs, given, crossed, hostInv>>
      /\ UNCHANGED <<varVars, entVars, strVars>>

\* The callback is passed as an argument of a host call.
HostCross ==
  \E k \in 1 .. Len(cbs) :
    /\ ~crashed
    /\ ~crossed[k]
    /\ crossed' = [crossed EXCEPT ![k] = TRUE]
    /\ lastOp' = [op |-> "cross", k |-> k, code |-> 0]
    /\ UNCHANGED <<cbs, given, calls, hostInv, adapterRun, crashed>>
    /\ UNCHANGED <<varVars, entVars, strVars>>

\* The host completes the operation: it calls func(user_data, code), once.
\* A blocking callback (func = NULL) is never called.
HostInvoke ==
  \E k \in 1 .. Len(cbs), code \in Codes :
    /\ ~crashed
    /\ crossed[k]
    /\ hostInv[k] = 0
    /\ cbs[k].func # NULL
    /\ Len(calls) < MaxLog
    /\ calls' = calls \o Tagged(PP_RunCompletionCallback(cbs[k], code).made, k, "host")
    /\ hostInv' = [hostInv EXCEPT ![k] = 1]
    /\ lastOp' = [op |-> "invoke", k |-> k, code |-> code]
    /\ UNCHANGED <<cbs, given, crossed, adapterRun, crashed>>
    /\ UNCHANGED <<varVars, entVars, strVars>>

NextCb ==
  \/ MakeCompletionCallback \/ BlockUntilComplete
  \/ RunCompletionCallback \/ HostCross \/ HostInvoke

\* Calls of callback k's function so far.
Invocations(k) == Cardinality({ n \in 1 .. Len(calls) : calls[n].cb = k })

\* Lifecycle stage of callback k: 0 Unbound, 1 Crossed, 2 Invoked.
Life(k) ==
  IF Invocations(k) > 0 THEN 2 ELSE IF crossed[k] THEN 1 ELSE 0

(***************************************************************************)
(* getentropy_nacl.c                                                       *)
(***************************************************************************)
RECURSIVE BitOr(_, _)
\* a | b on non-negative integers
BitOr(a, b) ==
  IF a = 0 THEN b
  ELSE IF b = 0 THEN a
  ELSE (IF a % 2 = 1 \/ b % 2 = 1 THEN 1 ELSE 0) + 2 * BitOr(a \div 2, b \div 2)

RECURSIVE gotdata_loop(_, _, _, _)
\* for (i = 0; i < len; ++i) any_set |= buf[i];
gotdata_loop(b, len, i, any_set) ==
  IF i < len THEN gotdata_loop(b, len, i + 1, BitOr(any_set, b[i + 1].val))
  ELSE any_set

\* Mutant: the sanity check accepts any buffer.
gotdata_any(b, len) == 0
gotdata(b, len) ==
  IF gotdata_loop(b, len, 0, 0) = 0 THEN -1 ELSE 0

DevBytes    == {0, 1, 2}
EntryErrnos == {"0", "ENOENT"}
FdNums      == 1 .. MaxFds

EntIdle ==
  /\ epc = "idle"
  /\ elen = 0
  /\ buf = << >>
  /\ ei = 0
  /\ fd = -1
  /\ fdState = [n \in FdNums |-> "unused"]
  /\ closes = [n \in FdNums |-> 0]
  /\ errno = "0"
  /\ errno0 = "0"
  /\ save_errno = "0"
  /\ devKind = "chr"
  /\ faults = {}
  /\ spin = 0
  /\ intr = 0
  /\ eret = 1

\* close(fd)
Close(n) ==
  /\ fdState' = [fdState EXCEPT ![n] = "closed"]
  /\ closes' = [closes EXCEPT ![n] = @ + 1]

\* A caller enters getentropy(buf, len): int save_errno = errno.
GetentropyCall ==
  /\ epc \in {"idle", "done"}
  /\ \E len \in 0 .. MaxLen, c \in DevBytes, e \in EntryErrnos, k \in {"chr", "reg"} :
       /\ elen' = len
       /\ buf' = [i \in 1 .. len |-> [val |-> c, src |-> "caller"]]
       /\ errno' = e
       /\ errno0' = e
       /\ save_errno' = e
       /\ devKind' = k
  /\ ei' = 0
  /\ fd' = -1
  /\ faults' = {}
  /\ spin' = 0
  /\ intr' = 0
  /\ eret' = 1
  /\ epc' = "open"
  /\ UNCHANGED <<fdState, closes>>
  /\ UNCHANGED <<varVars, cbVars, strVars>>

\* start: fd = open("/dev/urandom", flags, 0);
\* if (fd == -1) { if (errno == EINTR) goto start; goto nodevrandom; }
Open ==
  /\ epc = "open"
  /\ \/ \E n \in FdNums :
          /\ fdState[n] = "unused"
          /\ \A m \in FdNums : m < n => fdState[m] # "unused"
          /\ fd' = n
          /\ fdState' = [fdState EXCEPT ![n] = "open"]
          /\ epc' = "fstat"
          /\ UNCHANGED <<errno, intr, faults>>
     \/ /\ intr < MaxIntr
        /\ fd' = -1
        /\ errno' = "EINTR"
        /\ intr' = intr + 1
        /\ UNCHANGED <<epc, fdState, faults>>
     \/ /\ fd' = -1
        /\ errno' \in {"ENOENT", "EMFILE"}
        /\ faults' = faults \cup {"open"}
        /\ epc' = "nodevrandom"
        /\ UNCHANGED <<fdState, intr>>
  /\ UNCHANGED <<elen, buf, ei, closes, errno0, save_errno, devKind, spin, eret>>
  /\ UNCHANGED <<varVars, cbVars, strVars>>

\* if (fstat(fd, &st) == -1 || !S_ISCHR(st.st_mode)) { close(fd); goto nodevrandom; }
\* otherwise the for loop is entered with i = 0.
Fstat ==
  /\ epc = "fstat"
  /\ \/ /\ errno' = "EBADF"
        /\ faults' = faults \cup {"fstat"}
        /\ Close(fd)
        /\ epc' = "nodevrandom"
        /\ UNCHANGED ei
     \/ /\ devKind # "chr"
        /\ faults' = faults \cup {"notchr"}
        /\ Close(fd)
        /\ epc' = "nodevrandom"
        /\ UNCHANGED <<errno, ei>>
     \/ /\ devKind = "chr"
        /\ ei' = 0
        /\ epc' = "read"
        /\ UNCHANGED <<errno, faults, fdState, closes>>
  /\ UNCHANGED <<elen, buf, fd, errno0, save_errno, devKind, spin, intr, eret>>
  /\ UNCHANGED <<varVars, cbVars, strVars>>

\* The body of the loop, i < len:
\*   ret = read(fd, buf + i, wanted);
\*   if (ret == -1) { if (errno == EAGAIN || errno == EINTR) continue;
\*                    close(fd); goto nodevrandom; }
\*   i += ret;
Read ==
  /\ epc = "read"
  /\ ei < elen
  /\ LET wanted == elen - ei IN
     \/ \E ret \in 1 .. wanted : \E data \in [1 .. ret -> DevBytes] :
          /\ buf' = [i \in 1 .. elen |->
                       IF i > ei /\ i <= ei + ret
                         THEN [val |-> data[i - ei], src |-> "dev"]
                         ELSE buf[i]]
          /\ ei' = ei + ret
          /\ UNCHANGED <<errno, intr, spin, faults, fdState, closes, epc>>
     \/ /\ ei' = ei + 0
        /\ spin' = 1 - spin
        /\ UNCHANGED <<buf, errno, intr, faults, fdState, closes, epc>>
     \/ /\ intr < MaxIntr
        /\ errno' \in {"EAGAIN", "EINTR"}
        /\ intr' = intr + 1
        /\ UNCHANGED <<buf, ei, spin, faults, fdState, closes, epc>>
     \/ /\ errno' = "EBADF"
        /\ faults' = faults \cup {"read"}
        /\ Close(fd)
        /\ epc' = "nodevrandom"
        /\ UNCHANGED <<buf, ei, spin, intr>>
  /\ UNCHANGED <<elen, fd, errno0, save_errno, devKind, eret>>
  /\ UNCHANGED <<varVars, cbVars, strVars>>

\* Mutant: the descriptor is not closed after the loop.
LoopExit_noclose ==
  /\ epc = "read"
  /\ ~(ei < elen)
  /\ epc' = "gotdata"
  /\ UNCHANGED <<elen, buf, ei, fd, fdState, closes, errno, errno0, save_errno,
                 devKind, faults, spin, intr, eret>>
  /\ UNCHANGED <<varVars, cbVars, strVars>>
\* The loop ends, i >= len: close(fd);
LoopExit ==
  /\ epc = "read"
  /\ ~(ei < elen)
  /\ Close(fd)
  /\ epc' = "gotdata"
  /\ UNCHANGED <<elen, buf, ei, fd, errno, errno0, save_errno, devKind, faults,
                 spin, intr, eret>>
  /\ UNCHANGED <<varVars, cbVars, strVars>>

\* if (gotdata(buf, len) == 0) { errno = save_errno; return 0; }
GotData ==
  /\ epc = "gotdata"
  /\ IF gotdata(buf, elen) = 0
       THEN /\ errno' = save_errno
            /\ eret' = 0
            /\ epc' = "done"
       ELSE /\ epc' = "nodevrandom"
            /\ UNCHANGED <<errno, eret>>
  /\ UNCHANGED <<elen, buf, ei, fd, fdState, closes, errno0, save_errno, devKind,
                 faults, spin, intr>>
  /\ UNCHANGED <<varVars, cbVars, strVars>>

\* nodevrandom: errno = EIO; return -1;
NoDevRandom ==
  /\ epc = "nodevrandom"
  /\ errno' = "EIO"
  /\ eret' = -1
  /\ epc' = "done"
  /\ UNCHANGED <<elen, buf, ei, fd, fdState, closes, errno0, save_errno, devKind,
                 faults, spin, intr>>
  /\ UNCHANGED <<varVars, cbVars, strVars>>

\* One step of the code of getentropy.
getentropy == Open \/ Fstat \/ Read \/ LoopExit \/ GotData \/ NoDevRandom

NextEnt ==
  \/ GetentropyCall
  \/ Open \/ Fstat \/ Read \/ LoopExit \/ GotData \/ NoDevRandom

(***************************************************************************)
(* o_str.c and include/string.h, the __pnacl__ branches.  A C string is    *)
(* the sequence of its characters; the character at index Len is the       *)
(* terminating NUL.                                                        *)
(***************************************************************************)
CharAt(s, i) == IF i < Len(s) THEN s[i + 1] ELSE 0

RECURSIVE strncasecmp_loop(_, _, _, _)
\* for(; str1[i] == str2[i] && str1[i] != '\0' && str2[i] != '\0' && i < n; ++i) { }
strncasecmp_loop(s1, s2, n, i) ==
  IF CharAt(s1, i) = CharAt(s2, i) /\ CharAt(s1, i) # 0 /\ CharAt(s2, i) # 0 /\ i < n
    THEN strncasecmp_loop(s1, s2, n, i + 1)
    ELSE i

RECURSIVE strcasecmp_loop(_, _, _)
\* for(; str1[i] == str2[i] && str1[i] != '\0' && str2[i] != '\0'; ++i) { }
strcasecmp_loop(s1, s2, i) ==
  IF CharAt(s1, i) = CharAt(s2, i) /\ CharAt(s1, i) # 0 /\ CharAt(s2, i) # 0
    THEN strcasecmp_loop(s1, s2, i + 1)
    ELSE i

\* return (int)(str1[i] - str2[i]); maxidx is the last index the call read.
OPENSSL_strncasecmp(s1, s2, n) ==
  LET i == strncasecmp_loop(s1, s2, n, 0) IN
    [ ret |-> CharAt(s1, i) - CharAt(s2, i), maxidx |-> i ]

OPENSSL_strcasecmp(s1, s2) ==
  LET i == strcasecmp_loop(s1, s2, 0) IN
    [ ret |-> CharAt(s1, i) - CharAt(s2, i), maxidx |-> i ]

\* include/string.h: the inline replacements have the same bodies.
strncasecmp(s1, s2, n) ==
  LET i == strncasecmp_loop(s1, s2, n, 0) IN
    [ ret |-> CharAt(s1, i) - CharAt(s2, i), maxidx |-> i ]

strcasecmp(s1, s2) ==
  LET i == strcasecmp_loop(s1, s2, 0) IN
    [ ret |-> CharAt(s1, i) - CharAt(s2, i), maxidx |-> i ]

(***************************************************************************)
(* SpecStr: one comparison of two strings.                                 *)
(***************************************************************************)
Chars   == {65, 97, 98}             \* 'A', 'a', 'b'
Strings == UNION { [1 .. l -> Chars] : l \in 0 .. MaxStr }
NoCmp   == [fn |-> "none", ret |-> 0, maxidx |-> 0]

StrIdle ==
  /\ str1 = << >>
  /\ str2 = << >>
  /\ sn = 0
  /\ sres = NoCmp
  /\ spc = "idle"

CallCmp(fn, r) ==
  /\ spc = "input"
  /\ sres' = [fn |-> fn, ret |-> r.ret, maxidx |-> r.maxidx]
  /\ spc' = "done"
  /\ UNCHANGED <<str1, str2, sn>>
  /\ UNCHANGED <<varVars, cbVars, entVars>>

CallOpensslStrncasecmp == CallCmp("OPENSSL_strncasecmp", OPENSSL_strncasecmp(str1, str2, sn))
CallOpensslStrcasecmp  == CallCmp("OPENSSL_strcasecmp", OPENSSL_strcasecmp(str1, str2))
CallStrncasecmp        == CallCmp("strncasecmp", strncasecmp(str1, str2, sn))
CallStrcasecmp         == CallCmp("strcasecmp", strcasecmp(str1, str2))

NextStr ==
  \/ CallOpensslStrncasecmp \/ CallOpensslStrcasecmp
  \/ CallStrncasecmp \/ CallStrcasecmp

(***************************************************************************)
(* The specifications.  Each runs one part of the program; the variables   *)
(* of the other parts stay idle.                                           *)
(***************************************************************************)
InitVar ==
  /\ vcall \in VarCalls
  /\ var = NoVar
  /\ vresult = NoResult
  /\ vpc = "input"
  /\ CbIdle /\ EntIdle /\ StrIdle

SpecVar == InitVar /\ [][NextVar]_vars

InitCb == CbIdle /\ VarIdle /\ EntIdle /\ StrIdle

SpecCb == InitCb /\ [][NextCb]_vars

InitEnt == EntIdle /\ VarIdle /\ CbIdle /\ StrIdle

SpecEnt == InitEnt /\ [][NextEnt]_vars

\* The program keeps running: a call that has begun takes its next step.
SpecEntFair == SpecEnt /\ WF_vars(getentropy)

InitStr ==
  /\ str1 \in Strings
  /\ str2 \in Strings
  /\ sn \in 0 .. MaxStr + 1
  /\ sres = NoCmp
  /\ spc = "input"
  /\ VarIdle /\ CbIdle /\ EntIdle

SpecStr == InitStr /\ [][NextStr]_vars

(***************************************************************************)
(* Properties of the PP_Var layer (SpecVar).                               *)
(***************************************************************************)
RefKind ==
  [ string_id_to_var       |-> PP_VarType.PP_VARTYPE_STRING,
    object_id_to_var       |-> PP_VarType.PP_VARTYPE_OBJECT,
    array_id_to_var        |-> PP_VarType.PP_VARTYPE_ARRAY,
    dictionary_id_to_var   |-> PP_VarType.PP_VARTYPE_DICTIONARY,
    array_buffer_id_to_var |-> PP_VarType.PP_VARTYPE_ARRAY_BUFFER ]

\* C1: for each of the five reference encoders and every 64-bit id, the
\* Variant produced has the Kind of that encoder, and id_from_var applied to
\* it returns exactly the id.
C1_RefRoundTrip ==
  vcall.fn \in RefEncoders =>
    /\ vpc \in {"encoded", "decoded"} => var.type = RefKind[vcall.fn]
    /\ vpc = "decoded" => vresult = vcall.arg

C1_Witness ==
  /\ vpc = "decoded"
  /\ vcall.fn = "array_buffer_id_to_var"
  /\ vcall.arg = [hi |-> -2147483647 - 1, mid |-> 65535, lo |-> 42]
  /\ vresult = vcall.arg
  /\ var.type = PP_VarType.PP_VARTYPE_ARRAY_BUFFER

\* C2: bool_from_var(bool_to_var(x)) = x with Kind Bool, i32_from_var(
\* i32_to_var(n)) = n with Kind Int32, and f64_from_var(f64_to_var(d)) is the
\* very double d (the same sign, exponent and fraction) with Kind Double.
C2_ScalarRoundTrip ==
  /\ vcall.fn = "bool_to_var" =>
       /\ vpc \in {"encoded", "decoded"} => var.type = PP_VarType.PP_VARTYPE_BOOL
       /\ vpc = "decoded" => vresult = vcall.arg
  /\ vcall.fn = "i32_to_var" =>
       /\ vpc \in {"encoded", "decoded"} => var.type = PP_VarType.PP_VARTYPE_INT32
       /\ vpc = "decoded" => vresult = vcall.arg
  /\ vcall.fn = "f64_to_var" =>
       /\ vpc \in {"encoded", "decoded"} => var.type = PP_VarType.PP_VARTYPE_DOUBLE
       /\ vpc = "decoded" => vresult = vcall.arg

C2_Witness ==
  /\ vpc = "decoded"
  /\ vcall.fn = "i32_to_var"
  /\ vcall.arg = -2147483647 - 1
  /\ vresult = vcall.arg
  /\ var.type = PP_VarType.PP_VARTYPE_INT32

\* C6: the Kind of the Variant an encoder produced is produced by no other
\* encoder, on any input: the Kinds of make_undefined_var, make_null_var, the
\* three scalar encoders and the five reference encoders are pairwise distinct.
C6_KindsDistinct ==
  vpc \in {"encoded", "decoded"} =>
    \A c \in VarCalls : \A j \in Junk :
      c.fn # vcall.fn => Encode(c.fn, c.arg, j).type # var.type

C6_Witness ==
  /\ vpc = "encoded"
  /\ vcall.fn = "make_null_var"
  /\ var.type = PP_VarType.PP_VARTYPE_NULL
  /\ var.type # make_undefined_var(0).type

\* C7: every Variant produced by an encoder has its padding field equal to 0.
C7_PaddingZero ==
  vpc \in {"encoded", "decoded"} => var.padding = 0

C7_Witness ==
  /\ vpc = "encoded"
  /\ vcall.fn = "dictionary_id_to_var"
  /\ vcall.arg.lo = 65535
  /\ var.padding = 0

(***************************************************************************)
(* Properties of the completion-callback helpers (SpecCb).                 *)
(***************************************************************************)
\* C3: for cb built by make_completion_callback(f, ctx) from a function f, a
\* call run_completion_callback(cb, r) calls f exactly once, with (ctx, r),
\* and changes nothing else; building a callback calls nothing.
C3_RunCallsOnce ==
  [][ /\ (lastOp'.op = "run" /\ given[lastOp'.k][1] # NULL) =>
           /\ calls' = Append(calls, [ cb        |-> lastOp'.k,
                                       by        |-> "adapter",
                                       func      |-> given[lastOp'.k][1],
                                       user_data |-> given[lastOp'.k][2],
                                       code      |-> lastOp'.code ])
           /\ UNCHANGED <<cbs, given, crossed, hostInv, crashed>>
           /\ UNCHANGED <<varVars, entVars, strVars>>
      /\ lastOp'.op \in {"make", "block"} => calls' = calls
    ]_vars

C3_Witness ==
  /\ lastOp = [op |-> "run", k |-> 1, code |-> -3]
  /\ given[1] = <<"f", "ctx">>
  /\ Len(calls) = 1
  /\ calls[1].func = "f" /\ calls[1].user_data = "ctx" /\ calls[1].code = -3
  /\ calls[1].by = "adapter"

\* C5 as stated: a callback is invoked only after it was crossed, exactly
\* once, and by the host, never by the adapter.
C5_ExactlyOnceByHost ==
  /\ \A n \in 1 .. Len(calls) : calls[n].by = "host"
  /\ \A k \in 1 .. Len(cbs) :
       Life(k) = 2 => crossed[k] /\ Invocations(k) = 1

\* C5 amended: the lifecycle stage of a callback never moves backwards,
\* building or crossing a callback calls nothing, and the host calls a
\* crossed callback at most once; the helper keeps no state, and each
\* run_completion_callback on a callback with a function calls it once more,
\* whatever its stage: calls = host invocations + run_completion_callback calls.
C5_LifecycleMonotone ==
  /\ [](\A k \in 1 .. Len(cbs) :
          /\ hostInv[k] <= 1
          /\ hostInv[k] = 1 => crossed[k]
          /\ cbs[k].func # NULL => Invocations(k) = hostInv[k] + adapterRun[k])
  /\ [][ /\ \A k \in 1 .. Len(cbs) : Life(k)' >= Life(k)
         /\ lastOp'.op \in {"make", "block", "cross"} => calls' = calls ]_vars

C5_Witness ==
  \E k \in 1 .. Len(cbs) :
    /\ crossed[k]
    /\ hostInv[k] = 1
    /\ adapterRun[k] = 1
    /\ Invocations(k) = 2
    /\ calls[1].by = "adapter" /\ calls[2].by = "host"

(***************************************************************************)
(* Properties of getentropy (SpecEnt, SpecEntFair).                        *)
(***************************************************************************)
AllZero == \A i \in 1 .. Len(buf) : buf[i].val = 0

\* C4: getentropy returns 0 only when the whole buffer was filled from a
\* character device and holds a non-zero byte; when the open, the fstat or a
\* read failed, the device is no character device, or the bytes are all
\* zero, it returns -1.
C4_FailClosed ==
  /\ (epc = "done" /\ eret = 0) =>
       /\ devKind = "chr"
       /\ faults = {}
       /\ fd # -1
       /\ ei = elen
       /\ Len(buf) = elen
       /\ \A i \in 1 .. elen : buf[i].src = "dev"
       /\ \E i \in 1 .. elen : buf[i].val # 0
  /\ (epc = "done" /\ (faults # {} \/ devKind # "chr" \/ AllZero)) => eret = -1

C4_Witness ==
  /\ epc = "done"
  /\ eret = 0
  /\ elen = 2
  /\ buf = << [val |-> 0, src |-> "dev"], [val |-> 2, src |-> "dev"] >>
  /\ intr = 1

\* C8: every call of getentropy returns, when EINTR and EAGAIN occur finitely
\* often, also when read returns 0 before len bytes were read.
C8_Terminates == (epc = "open") ~> (epc = "done")

\* C9: when getentropy has returned, every descriptor it opened was closed
\* exactly once and none is open; the result is 0 with errno as at entry, or
\* -1 with errno EIO.
C9_NoLeakErrno ==
  /\ epc \in {"idle", "done"} =>
       \A n \in FdNums :
         /\ fdState[n] # "open"
         /\ closes[n] = (IF fdState[n] = "closed" THEN 1 ELSE 0)
  /\ epc = "done" =>
       /\ eret \in {0, -1}
       /\ eret = 0 => errno = errno0
       /\ eret = -1 => errno = "EIO"

C9_Witness ==
  /\ epc = "done"
  /\ eret = 0
  /\ intr = 1
  /\ errno0 = "ENOENT" /\ errno = "ENOENT"
  /\ fd = 2
  /\ fdState = [n \in FdNums |-> IF n <= 2 THEN "closed" ELSE "unused"]
  /\ closes = [n \in FdNums |-> IF n <= 2 THEN 1 ELSE 0]

(***************************************************************************)
(* Properties of the string comparison (SpecStr).                          *)
(***************************************************************************)
ToLower(c) == IF c >= 65 /\ c <= 90 THEN c + 32 ELSE c

\* The first n characters of s, lower-cased.
LowerPrefix(s, n) ==
  [ i \in 1 .. (IF n < Len(s) THEN n ELSE Len(s)) |-> ToLower(s[i]) ]

\* C10: OPENSSL_strncasecmp and strncasecmp return 0 exactly when the first n
\* characters of the two strings are equal ignoring case, and read no
\* character at index n or beyond.
C10_CaseInsensitivePrefix ==
  (spc = "done" /\ sres.fn \in {"OPENSSL_strncasecmp", "strncasecmp"}) =>
    /\ (sres.ret = 0) <=> (LowerPrefix(str1, sn) = LowerPrefix(str2, sn))
    /\ sres.maxidx < sn

====
